---- MODULE Spec2Model ----
(***************************************************************************)
(* Model of the configuration loader of python_template:                   *)
(*   src/src/config_parser.py  (from_* checks, ObjectList, Config)         *)
(*   src/src/tools.py          (Singleton, Tools, Logger)                  *)
(* Python values are tagged records [k |-> <type name>, v |-> <payload>];  *)
(* each type has its own payload field.  Strings are sequences of          *)
(* one-character strings so that str.lower() and                           *)
(* the path functions are computed character by character.  JSON values    *)
(* (the content of files) are tagged records [j |-> <JSON kind>, ...].     *)
(***************************************************************************)
EXTENDS Integers, Sequences, FiniteSets, TLC

VARIABLES
    pc,        \* "run": alive; "done": ended; "exit": sys.exit(-1); "raised": uncaught exception
    exc,       \* type of the uncaught exception ("none" unless pc = "raised")
    phase,     \* "start", "loaded", "saved", "reloaded": position of the caller
    cfg,       \* the caller's Config instance, or NoConfig
    files,     \* regular files of the filesystem: path -> content
    dirs,      \* directories of the filesystem
    log,       \* records handed to the logger, in order
    instance,  \* Singleton._instance of Logger: 0 while the attribute is unset
    created,   \* number of times the decorated constructor completed
    calls,     \* history of the outcomes of instance() / __call__()
    last,      \* what the last deserialize / serialize was given and did
    saved      \* the Config and directory of the last successful serialize

vars == <<pc, exc, phase, cfg, files, dirs, log, instance, created, calls, last, saved>>

(***************************************************************************)
(* Bounds of the model.                                                    *)
(***************************************************************************)
MaxLen == 2      \* longest list drawn for simple_list / object_list
MaxCalls == 5    \* direct uses of the Singleton by the caller

(***************************************************************************)
(* Python values.                                                          *)
(***************************************************************************)
NoneV == [k |-> "NoneType"]
BoolV(b) == [k |-> "bool", b |-> b]
IntV(n) == [k |-> "int", n |-> n]
FloatV(n) == [k |-> "float", fl |-> n]         \* the float n + 0.5
StrV(s) == [k |-> "str", s |-> s]
ListV(l) == [k |-> "list", l |-> l]
DictV(d) == [k |-> "dict", d |-> d]
ObjectListV(i, d) == [k |-> "ObjectList", o |-> [obj_id |-> i, obj_desc |-> d]]

NoConfig == [k |-> "NoConfig"]
ConfigV(b, p, s, i, sl, ol) ==
    [k |-> "Config",
     c |-> [sample_bool |-> b, sample_path |-> p, sample_string |-> s,
            sample_int |-> i, simple_list |-> sl, object_list |-> ol]]

CONFIG_SAMPLE_BOOL == "sample_bool"
CONFIG_SAMPLE_PATH == "sample_path"
CONFIG_SAMPLE_STRING == "sample_string"
CONFIG_SAMPLE_INT == "sample_int"
CONFIG_SIMPLE_LIST == "simple_list"
CONFIG_OBJECT_LIST == "object_list"
CONFIG_OBJECT_OBJ_ID == "obj_id"
CONFIG_OBJECT_OBJ_DESC == "obj_desc"

ConfigKeys ==
    {CONFIG_SAMPLE_BOOL, CONFIG_SAMPLE_PATH, CONFIG_SAMPLE_STRING,
     CONFIG_SAMPLE_INT, CONFIG_SIMPLE_LIST, CONFIG_OBJECT_LIST}

Min(S) == CHOOSE m \in S : \A n \in S : m <= n

(* The({e(r) : r \in {x}}) is e(x) with x evaluated once: the way a local   *)
(* variable of the source is modelled.                                      *)
The(S) == CHOOSE v \in S : TRUE

RECURSIVE Flatten(_)
Flatten(ss) == IF ss = <<>> THEN <<>> ELSE Head(ss) \o Flatten(Tail(ss))

(***************************************************************************)
(* Results of a call: a returned value or a raised exception, plus the     *)
(* records the call handed to the logger while it ran.                     *)
(***************************************************************************)
Msg(text, raw, shapes) == [text |-> text, raw |-> raw, shapes |-> shapes]
NoMsg == Msg("", NoneV, <<>>)
LogRec(level, msg) == [level |-> level, msg |-> msg]

Ok(v, lg) == [ok |-> TRUE, v |-> v, exc |-> "none", msg |-> NoMsg, log |-> lg]
Raise(e, msg, lg) == [ok |-> FALSE, v |-> NoneV, exc |-> e, msg |-> msg, log |-> lg]

(***************************************************************************)
(* Tools.check_instance: isinstance, with bool a subclass of int.          *)
(***************************************************************************)
IsInstance(val, class_type) ==
    CASE class_type = "bool" -> val.k = "bool"
      [] class_type = "int" -> val.k \in {"int", "bool"}
      [] class_type = "str" -> val.k = "str"
      [] class_type = "list" -> val.k = "list"
      [] class_type = "dict" -> val.k = "dict"
      [] class_type = "ObjectList" -> val.k = "ObjectList"
      [] OTHER -> FALSE

check_instance(val, class_type) ==
    IF class_type = "None"
    THEN IF val.k # "NoneType"
         THEN Raise("TypeError", Msg("must be", val, <<"None">>), <<>>)
         ELSE Ok(BoolV(TRUE), <<>>)
    ELSE IF IsInstance(val, class_type)
         THEN Ok(BoolV(TRUE), <<>>)
         ELSE Raise("TypeError", Msg("must be", val, <<class_type>>), <<>>)

from_bool(x) == LET c == check_instance(x, "bool") IN IF c.ok THEN Ok(x, <<>>) ELSE c
from_int(x) == LET c == check_instance(x, "int") IN IF c.ok THEN Ok(x, <<>>) ELSE c
from_str(x) == LET c == check_instance(x, "str") IN IF c.ok THEN Ok(x, <<>>) ELSE c
from_none(x) == LET c == check_instance(x, "None") IN IF c.ok THEN Ok(x, <<>>) ELSE c

(***************************************************************************)
(* from_list: the elements are converted in order; the first exception     *)
(* ends the comprehension, after the log records of the elements before.   *)
(***************************************************************************)
RECURSIVE Apply(_, _)
RECURSIVE UnionFrom(_, _, _, _)

from_list(f, x) ==
    LET c == check_instance(x, "list") IN
    IF ~c.ok THEN c
    ELSE The({
        LET bad == {i \in 1..Len(x.l) : ~rs[i].ok} IN
        IF bad = {}
        THEN Ok(ListV([i \in 1..Len(x.l) |-> rs[i].v]),
                Flatten([i \in 1..Len(x.l) |-> rs[i].log]))
        ELSE The({Raise(rs[first].exc, rs[first].msg, Flatten([i \in 1..first |-> rs[i].log])) :
                    first \in {Min(bad)}})
        : rs \in {[i \in 1..Len(x.l) |-> Apply(f, x.l[i])]}})

(* from_union: every exception of an alternative is swallowed; when all     *)
(* fail the message lists type(f.__name__) of each alternative.             *)
UnionFrom(fs, x, i, lg) ==
    IF i > Len(fs)
    THEN Raise("TypeError",
               Msg("should be one out of", x, [n \in 1..Len(fs) |-> "<class 'str'>"]),
               lg)
    ELSE The({IF r.ok THEN Ok(r.v, lg \o r.log)
              ELSE The({UnionFrom(fs, x, i + 1, lg2) : lg2 \in {lg \o r.log}})
              : r \in {Apply(fs[i], x)}})

from_union(fs, x) == UnionFrom(fs, x, 1, <<>>)

Get(obj, key) == IF key \in DOMAIN obj.d THEN obj.d[key] ELSE NoneV

ObjectList_deserialize(obj) ==
    IF obj.k # "dict"
    THEN Raise("AttributeError", Msg("has no attribute get", obj, <<>>), <<>>)
    ELSE The({
        IF ~obj_id.ok THEN obj_id
        ELSE The({
            IF ~obj_desc.ok THEN obj_desc
            ELSE LET o == ObjectListV(obj_id.v, obj_desc.v) IN
                 Ok(o, <<LogRec("info", Msg("ObjectList::", o, <<>>))>>)
            : obj_desc \in {from_union(<<"from_none", "from_str">>,
                                       Get(obj, CONFIG_OBJECT_OBJ_DESC))}})
        : obj_id \in {from_union(<<"from_none", "from_int">>, Get(obj, CONFIG_OBJECT_OBJ_ID))}})

(* Variant of ObjectList.serialize with the two fields written crosswise. *)
ObjectList_serialize_crossed(self) ==
    The({
        IF ~obj_id.ok THEN obj_id
        ELSE The({
            IF ~obj_desc.ok THEN obj_desc
            ELSE LET result == DictV([obj_id |-> obj_desc.v, obj_desc |-> obj_id.v]) IN
                 Ok(result, <<LogRec("info", Msg("ObjectList serialized:", result, <<>>))>>)
            : obj_desc \in {from_union(<<"from_none", "from_str">>, self.o.obj_desc)}})
        : obj_id \in {from_union(<<"from_none", "from_int">>, self.o.obj_id)}})

ObjectList_serialize(self) ==
    The({
        IF ~obj_id.ok THEN obj_id
        ELSE The({
            IF ~obj_desc.ok THEN obj_desc
            ELSE LET result == DictV([obj_id |-> obj_id.v, obj_desc |-> obj_desc.v]) IN
                 Ok(result, <<LogRec("info", Msg("ObjectList serialized:", result, <<>>))>>)
            : obj_desc \in {from_union(<<"from_none", "from_str">>, self.o.obj_desc)}})
        : obj_id \in {from_union(<<"from_none", "from_int">>, self.o.obj_id)}})

to_class(c, x) ==
    LET chk == check_instance(x, c) IN
    IF ~chk.ok THEN chk ELSE ObjectList_serialize(x)

(* The callables handed to from_union, by name. *)
Apply(f, x) ==
    CASE f = "from_none" -> from_none(x)
      [] f = "from_bool" -> from_bool(x)
      [] f = "from_int" -> from_int(x)
      [] f = "from_str" -> from_str(x)
      [] f = "ObjectList.deserialize" -> ObjectList_deserialize(x)
      [] f = "to_class_ObjectList" -> to_class("ObjectList", x)
      [] f = "list_from_str" -> from_list("from_str", x)
      [] f = "list_ObjectList_deserialize" -> from_list("ObjectList.deserialize", x)
      [] f = "list_to_class_ObjectList" -> from_list("to_class_ObjectList", x)

(***************************************************************************)
(* Strings and Tools.str2bool.  The alphabet of the model's strings is     *)
(* ASCII; str.lower() maps the 26 capital letters and nothing else.        *)
(***************************************************************************)
Capitals ==
    <<"A", "B", "C", "D", "E", "F", "G", "H", "I", "J", "K", "L", "M",
      "N", "O", "P", "Q", "R", "S", "T", "U", "V", "W", "X", "Y", "Z">>
Smalls ==
    <<"a", "b", "c", "d", "e", "f", "g", "h", "i", "j", "k", "l", "m",
      "n", "o", "p", "q", "r", "s", "t", "u", "v", "w", "x", "y", "z">>

LowerChar(c) ==
    IF \E i \in 1..Len(Capitals) : Capitals[i] = c
    THEN Smalls[CHOOSE i \in 1..Len(Capitals) : Capitals[i] = c]
    ELSE c

Lower(s) == [i \in 1..Len(s) |-> LowerChar(s[i])]

(* Variant of str2bool without the call of lower(). *)
str2bool_case_sensitive(s) ==
    s \in {<<"t", "r", "u", "e">>, <<"y", "e", "s">>, <<"y">>}

str2bool(s) ==
    Lower(s) \in {<<"t", "r", "u", "e">>, <<"y", "e", "s">>, <<"y">>}

(***************************************************************************)
(* The filesystem.  A filesystem value fs has the regular files            *)
(* (fs.files: path -> content) and the directories (fs.dirs); both are     *)
(* keyed by the resolved absolute path.  The symbolic links are fixed.     *)
(* The process runs in Cwd.  A path is a sequence of characters; while it  *)
(* is resolved it is a sequence of names.                                  *)
(***************************************************************************)
Root == <<"/">>
Cwd == <<"/", "w">>
DirD == <<"/", "w", "/", "d">>
RelD == <<"d">>
LinkL == <<"/", "l">>
MissingPath == <<"/", "x">>
InFile == <<"/", "w", "/", "c">>
EmptyPath == <<>>
OutName == <<"o">>

Symlinks == [p \in {LinkL} |-> DirD]

FS(fls, ds) == [files |-> fls, dirs |-> ds]
NoFS == FS(<<>>, {})

(* s.split("/") *)
Components(s) ==
    LET cuts == {0, Len(s) + 1} \cup {i \in 1..Len(s) : s[i] = "/"} IN
    [n \in 1..(Cardinality(cuts) - 1) |->
        LET c == CHOOSE c \in cuts : Cardinality({d \in cuts : d < c}) = n - 1
        IN SubSeq(s, c + 1, Min({d \in cuts : d > c}) - 1)]

Unsplit(names) ==
    IF names = <<>> THEN Root ELSE Flatten([i \in 1..Len(names) |-> <<"/">> \o names[i]])

Parent(names) == IF names = <<>> THEN <<>> ELSE SubSeq(names, 1, Len(names) - 1)

(* os.path.join(a, b) *)
Join(a, b) ==
    IF b # <<>> /\ b[1] = "/" THEN b
    ELSE IF a = <<>> \/ a[Len(a)] = "/" THEN a \o b
    ELSE a \o <<"/">> \o b

(* The path a relative name stands for in this process. *)
AbsText(s) == IF s # <<>> /\ s[1] = "/" THEN s ELSE Join(Cwd, s)

(* How the names of a path are followed from the root, one name at a time: *)
(* st.path is the resolved path so far; st.err is the error the kernel     *)
(* reports for the path (a name applied to something that is not a         *)
(* directory), which os.path.realpath ignores.  A link is replaced by the  *)
(* resolution of its target.                                               *)
RECURSIVE WalkPath(_, _, _, _)
RECURSIVE WalkStep(_, _, _)

WalkStep(fs, st, name) ==
    IF name = <<>> THEN st
    ELSE LET here == Unsplit(st.path)
             err == IF st.err # "none" THEN st.err
                    ELSE IF here \in fs.dirs THEN "none"
                    ELSE IF here \in DOMAIN fs.files THEN "NotADirectoryError"
                    ELSE "FileNotFoundError"
         IN IF name = <<".">> THEN [path |-> st.path, err |-> err]
            ELSE IF name = <<".", ".">> THEN [path |-> Parent(st.path), err |-> err]
            ELSE IF Unsplit(Append(st.path, name)) \in DOMAIN Symlinks
            THEN The({WalkPath(fs, [path |-> <<>>, err |-> e], names, 1) :
                        e \in {err},
                        names \in {Components(Symlinks[Unsplit(Append(st.path, name))])}})
            ELSE [path |-> Append(st.path, name), err |-> err]

WalkPath(fs, st, names, i) ==
    IF i > Len(names) THEN st
    ELSE The({WalkPath(fs, nxt, names, n) : nxt \in {WalkStep(fs, st, names[i])}, n \in {i + 1}})

Walk(fs, s) ==
    The({WalkPath(fs, [path |-> <<>>, err |-> "none"], names, 1) :
            names \in {Components(AbsText(s))}})

(* posixpath.normpath on an absolute path: "", "." and ".." are removed    *)
(* textually; exactly two leading slashes are kept.                        *)
RECURSIVE NormPath(_, _, _)
NormPath(path, names, i) ==
    IF i > Len(names) THEN path
    ELSE The({NormPath(nxt, names, n) :
                nxt \in {IF names[i] \in {<<>>, <<".">>} THEN path
                         ELSE IF names[i] = <<".", ".">> THEN Parent(path)
                         ELSE Append(path, names[i])},
                n \in {i + 1}})

AbsPath(s) ==
    The({LET two == Len(t) >= 2 /\ t[2] = "/" /\ ~(Len(t) >= 3 /\ t[3] = "/")
             norm == The({NormPath(<<>>, names, 1) : names \in {Components(t)}})
         IN IF two THEN <<"/">> \o Unsplit(norm) ELSE Unsplit(norm)
         : t \in {AbsText(s)}})

RealPath(s) == Unsplit(Walk(NoFS, s).path)

(* os.stat(path): "dir", "file" or the error. *)
Stat(fs, s) ==
    IF s = <<>> THEN "FileNotFoundError"
    ELSE The({LET p == Unsplit(r.path) IN
              IF r.err # "none" THEN r.err
              ELSE IF p \in fs.dirs THEN "dir"
              ELSE IF p \notin DOMAIN fs.files THEN "FileNotFoundError"
              ELSE IF s[Len(s)] = "/" THEN "NotADirectoryError"
              ELSE "file"
              : r \in {Walk(fs, s)}})

Exists(fs, path) == Stat(fs, path) \in {"dir", "file"}

validate_path(fs, s) ==
    IF s = <<>>
    THEN Raise("ValueError", Msg("Empty path.", StrV(s), <<>>), <<>>)
    ELSE The({IF ~Exists(fs, path)
              THEN Raise("FileNotFoundError", Msg("does not exist.", StrV(path), <<>>), <<>>)
              ELSE Ok(StrV(path), <<>>)
              : path \in {AbsPath(RealPath(s))}})

(* open(path, "w") / open(path, "a"): the error, or the file that is       *)
(* created or opened.                                                      *)
OpenForWriting(fs, target) ==
    IF target = <<>> THEN [exc |-> "FileNotFoundError", path |-> target]
    ELSE The({LET p == Unsplit(r.path) IN
              IF r.err # "none" THEN [exc |-> r.err, path |-> p]
              ELSE IF target[Len(target)] = "/" \/ p \in fs.dirs
              THEN [exc |-> "IsADirectoryError", path |-> p]
              ELSE [exc |-> "none", path |-> p]
              : r \in {Walk(fs, target)}})

WriteFile(fs, path, text) ==
    [fs EXCEPT !.files = [q \in DOMAIN fs.files \cup {path} |->
                             IF q = path THEN text ELSE fs.files[q]]]

(***************************************************************************)
(* The content of a file: a JSON document, or text that is not one.        *)
(* json.loads maps a document to Python values (an integer literal to int, *)
(* any other number to float), json.dumps maps dict/list/str/int/float/    *)
(* bool/None back.                                                         *)
(***************************************************************************)
JNull == [j |-> "null"]
JBool(b) == [j |-> "boolean", b |-> b]
JNum(n, frac) == [j |-> "number", num |-> [n |-> n, frac |-> frac]]
JStr(s) == [j |-> "string", s |-> s]
JArr(l) == [j |-> "array", l |-> l]
JObj(d) == [j |-> "object", d |-> d]
NotJson == [j |-> "invalid"]                 \* text that is no document, with or without its newlines
EmptyText == [j |-> "empty"]                 \* a file of length 0
Wrapped(t) == [j |-> "wrapped", doc |-> t]   \* the text of t with a newline inside one of its tokens
LogText(head, lines) == [j |-> "log", head |-> head, lines |-> lines]   \* head, then log lines

(* text.replace("\n", "") *)
RemoveNewlines(t) == IF t.j = "wrapped" THEN t.doc ELSE t

IsJson(t) == t.j \in {"null", "boolean", "number", "string", "array", "object"}

RECURSIVE json_loads(_)
json_loads(t) ==
    CASE t.j = "null" -> NoneV
      [] t.j = "boolean" -> BoolV(t.b)
      [] t.j = "number" -> IF t.num.frac THEN FloatV(t.num.n) ELSE IntV(t.num.n)
      [] t.j = "string" -> StrV(t.s)
      [] t.j = "array" -> ListV([i \in 1..Len(t.l) |-> json_loads(t.l[i])])
      [] t.j = "object" -> DictV([key \in DOMAIN t.d |-> json_loads(t.d[key])])

RECURSIVE json_dumps(_)
json_dumps(x) ==
    CASE x.k = "NoneType" -> JNull
      [] x.k = "bool" -> JBool(x.b)
      [] x.k = "int" -> JNum(x.n, FALSE)
      [] x.k = "float" -> JNum(x.fl, TRUE)
      [] x.k = "str" -> JStr(x.s)
      [] x.k = "list" -> JArr([i \in 1..Len(x.l) |-> json_dumps(x.l[i])])
      [] x.k = "dict" -> JObj([key \in DOMAIN x.d |-> json_dumps(x.d[key])])

(***************************************************************************)
(* Logger: the constructor makes <cwd>/output when nothing is there and    *)
(* opens <cwd>/output/log.log for appending; every record is appended to   *)
(* that file.                                                              *)
(***************************************************************************)
LogDir == Join(Cwd, <<"o", "u", "t", "p", "u", "t">>)
LogFile == Join(LogDir, <<"l", "o", "g", ".", "l", "o", "g">>)

Logger_init(fs) ==
    The({The({IF opened.exc # "none"
              THEN [ok |-> FALSE, exc |-> opened.exc, fs |-> made]
              ELSE [ok |-> TRUE, exc |-> "none",
                    fs |-> IF opened.path \in DOMAIN made.files THEN made
                           ELSE WriteFile(made, opened.path, EmptyText)]
              : opened \in {OpenForWriting(made, LogFile)}})
         : made \in {IF Exists(fs, LogDir) THEN fs ELSE [fs EXCEPT !.dirs = @ \cup {LogDir}]}})

Appended(t, lines) == IF t.j = "log" THEN LogText(t.head, t.lines \o lines) ELSE LogText(t, lines)

(* The filesystem after Logger.instance().<level>(msg) for every record of *)
(* lg, where the Logger exists or can be constructed.                      *)
Emit(fs, lg) ==
    IF lg = <<>> THEN fs
    ELSE The({[f EXCEPT !.files[LogFile] = Appended(@, lg)] : f \in {Logger_init(fs).fs}})

(***************************************************************************)
(* Outcome of one of the two operations of Config: how the call ended      *)
(* ("ok", "exit" for sys.exit(-1), "raised" for an exception that leaves   *)
(* the call), its result, the log records it emitted, the filesystem after *)
(* it, and the stage or field that was being processed when it ended.      *)
(***************************************************************************)
Outcome(status, e, c, lg, fs, field) ==
    [status |-> status, exc |-> e, cfg |-> c, log |-> lg, fs |-> fs, field |-> field]

(* Tools.read_json: [ok, v, exc, msg, log] with exc = "SystemExit" for sys.exit *)
read_json(fs, str_path) ==
    LET null_path == LogRec("critical", Msg("json path is null", NoneV, <<>>)) IN
    The({
        IF ~p.ok
        THEN IF p.exc = "FileNotFoundError"
             THEN Raise("SystemExit", p.msg,
                        <<LogRec("critical", [p.msg EXCEPT !.text = "does not exist. Quitting..."]),
                          null_path>>)
             ELSE Raise("SystemExit", p.msg, <<null_path>>)
        ELSE IF p.v.s \in fs.dirs
        THEN Raise("IsADirectoryError", Msg("Is a directory", p.v, <<>>), <<>>)
        ELSE The({
            IF ~IsJson(text)
            THEN Raise("JSONDecodeError", Msg("Expecting value", NoneV, <<>>), <<>>)
            ELSE The({
                LET c == check_instance(obj, "dict") IN
                IF ~c.ok
                THEN Raise("SystemExit", c.msg,
                           <<LogRec("critical",
                                    [c.msg EXCEPT !.shapes = c.msg.shapes \o <<"Provide json string">>])>>)
                ELSE Ok(obj, <<>>)
                : obj \in {json_loads(text)}})
            : text \in {RemoveNewlines(fs.files[p.v.s])}})
        : p \in {validate_path(fs, str_path)}})

(***************************************************************************)
(* Config.deserialize.                                                     *)
(***************************************************************************)
Handled(r, lg, fs, field) ==
    IF r.exc \in {"TypeError", "FileNotFoundError"}
    THEN Outcome("exit", "none", NoConfig, lg \o <<LogRec("critical", r.msg)>>, fs, field)
    ELSE Outcome("raised", r.exc, NoConfig, lg, fs, field)

(* Lines 88-110, with obj the dict read_json returned and lg its log records. *)
DeserializeFields(fs, obj, lg) ==
    The({
    IF ~b.ok THEN Handled(b, lg \o b.log, fs, CONFIG_SAMPLE_BOOL)
    ELSE The({
    IF ~p.ok THEN Handled(p, lg \o p.log, fs, CONFIG_SAMPLE_PATH)
    ELSE The({
    IF ~sample_path.ok THEN Handled(sample_path, lg, fs, CONFIG_SAMPLE_PATH)
    ELSE The({
    IF ~sample_string.ok THEN Handled(sample_string, lg, fs, CONFIG_SAMPLE_STRING)
    ELSE The({
    IF ~sample_int.ok THEN Handled(sample_int, lg, fs, CONFIG_SAMPLE_INT)
    ELSE The({
    IF ~simple_list.ok THEN Handled(simple_list, lg, fs, CONFIG_SIMPLE_LIST)
    ELSE The({
    IF ~object_list.ok
    THEN Handled(object_list, lg \o object_list.log, fs, CONFIG_OBJECT_LIST)
    ELSE LET sample_bool == IF b.v.k = "str" THEN BoolV(str2bool(b.v.s)) ELSE b.v
             c == ConfigV(sample_bool, sample_path.v, sample_string.v, sample_int.v,
                          simple_list.v, object_list.v)
         IN Outcome("ok", "none", c,
                    lg \o object_list.log
                       \o <<LogRec("info", Msg("Config deserialized:", NoneV, <<>>))>>,
                    fs, "none")
    : object_list \in {from_union(<<"list_ObjectList_deserialize", "from_none">>,
                                  Get(obj, CONFIG_OBJECT_LIST))}})
    : simple_list \in {from_union(<<"list_from_str", "from_none">>, Get(obj, CONFIG_SIMPLE_LIST))}})
    : sample_int \in {from_union(<<"from_none", "from_int">>, Get(obj, CONFIG_SAMPLE_INT))}})
    : sample_string \in {from_union(<<"from_none", "from_str">>, Get(obj, CONFIG_SAMPLE_STRING))}})
    : sample_path \in {IF p.v.k # "NoneType" THEN validate_path(fs, p.v.s) ELSE p}})
    : p \in {from_union(<<"from_none", "from_str">>, Get(obj, CONFIG_SAMPLE_PATH))}})
    : b \in {from_union(<<"from_str", "from_bool", "from_none">>, Get(obj, CONFIG_SAMPLE_BOOL))}})

(* The call with a logger that delivers every record. *)
DeserializeSteps(fs, str_path) ==
    The({
        IF ~j.ok
        THEN IF j.exc = "SystemExit"
             THEN Outcome("exit", "none", NoConfig, j.log, fs, "read_json")
             ELSE Outcome("raised", j.exc, NoConfig, j.log, fs, "read_json")
        ELSE DeserializeFields(fs, j.v, j.log)
        : j \in {read_json(fs, str_path)}})

(* Every record of the call is written to the log file.  When the Logger   *)
(* cannot be constructed its first use raises: inside from_union the       *)
(* exception is swallowed and becomes a TypeError, whose handler uses the  *)
(* Logger again; everywhere else it leaves the call as it is.              *)
Config_deserialize(fs, str_path) ==
    The({
        IF o.log = <<>> THEN o
        ELSE The({IF init.ok THEN [o EXCEPT !.fs = Emit(fs, o.log)]
                  ELSE Outcome("raised", init.exc, NoConfig, <<>>, init.fs, "logger")
                  : init \in {Logger_init(fs)}})
        : o \in {DeserializeSteps(fs, str_path)}})

(***************************************************************************)
(* Config.serialize: no handler surrounds the six from_union calls; the    *)
(* file is opened for writing after them.                                  *)
(***************************************************************************)
(* Lines 123-128: the six entries of result, each through its check chain. *)
FieldsResult(ok, v, e, lg, field) == [ok |-> ok, v |-> v, exc |-> e, log |-> lg, field |-> field]

(* Variant that leaves a None field out of result (the alternative the      *)
(* comment above line 123 describes).                                       *)
BuildResult_skip_none(r1, r2, r3, r4, r5, r6) ==
    LET all == [sample_bool |-> r1, sample_path |-> r2, sample_string |-> r3,
                sample_int |-> r4, simple_list |-> r5, object_list |-> r6]
    IN DictV([key \in {q \in ConfigKeys : all[q].k # "NoneType"} |-> all[key]])

BuildResult(r1, r2, r3, r4, r5, r6) ==
    DictV([sample_bool |-> r1, sample_path |-> r2, sample_string |-> r3,
           sample_int |-> r4, simple_list |-> r5, object_list |-> r6])

SerializedFields(self) ==
    The({
    IF ~r1.ok THEN FieldsResult(FALSE, NoneV, r1.exc, <<>>, CONFIG_SAMPLE_BOOL)
    ELSE The({
    IF ~r2.ok THEN FieldsResult(FALSE, NoneV, r2.exc, <<>>, CONFIG_SAMPLE_PATH)
    ELSE The({
    IF ~r3.ok THEN FieldsResult(FALSE, NoneV, r3.exc, <<>>, CONFIG_SAMPLE_STRING)
    ELSE The({
    IF ~r4.ok THEN FieldsResult(FALSE, NoneV, r4.exc, <<>>, CONFIG_SAMPLE_INT)
    ELSE The({
    IF ~r5.ok THEN FieldsResult(FALSE, NoneV, r5.exc, <<>>, CONFIG_SIMPLE_LIST)
    ELSE The({
    IF ~r6.ok THEN FieldsResult(FALSE, NoneV, r6.exc, r6.log, CONFIG_OBJECT_LIST)
    ELSE FieldsResult(TRUE, BuildResult(r1.v, r2.v, r3.v, r4.v, r5.v, r6.v), "none", r6.log, "none")
    : r6 \in {from_union(<<"list_to_class_ObjectList", "from_none">>, self.c.object_list)}})
    : r5 \in {from_union(<<"list_from_str", "from_none">>, self.c.simple_list)}})
    : r4 \in {from_union(<<"from_none", "from_int">>, self.c.sample_int)}})
    : r3 \in {from_union(<<"from_none", "from_str">>, self.c.sample_string)}})
    : r2 \in {from_union(<<"from_none", "from_str">>, self.c.sample_path)}})
    : r1 \in {from_union(<<"from_none", "from_bool">>, self.c.sample_bool)}})

(* Lines 130-134: open, write, close, then the info record. *)
WriteResult(self, fs, target, result) ==
    The({
        IF opened.exc # "none" THEN Outcome("raised", opened.exc, self, result.log, fs, "open")
        ELSE The({The({
                 IF ~init.ok THEN Outcome("raised", init.exc, self, result.log, written, "logger")
                 ELSE Outcome("ok", "none", self, result.log \o <<done>>,
                              Emit(written, <<done>>), "none")
                 : init \in {Logger_init(written)},
                   done \in {LogRec("info", Msg("Config serialized", NoneV, <<>>))}})
             : written \in {WriteFile(fs, opened.path, json_dumps(result.v))}})
        : opened \in {OpenForWriting(fs, target)}})

(* The critical record of line 119, then sys.exit; the exception of the    *)
(* Logger when it cannot be constructed.                                   *)
MissingDirectory(self, fs, dire) ==
    The({IF ~init.ok THEN Outcome("raised", init.exc, self, <<>>, init.fs, "logger")
         ELSE Outcome("exit", "none", self, <<rec>>, Emit(fs, <<rec>>), "directory")
         : init \in {Logger_init(fs)}, rec \in {LogRec("critical", dire.msg)}})

(* Variant that opens the target before the fields are checked. *)
Config_serialize_open_first(self, fs, directory, filename) ==
    The({
    IF ~dire.ok
    THEN IF dire.exc = "FileNotFoundError" THEN MissingDirectory(self, fs, dire)
         ELSE Outcome("raised", dire.exc, self, <<>>, fs, "directory")
    ELSE The({
        IF opened.exc # "none" THEN Outcome("raised", opened.exc, self, <<>>, fs, "open")
        ELSE The({
            IF result.log # <<>> /\ ~Logger_init(fs).ok
            THEN Outcome("raised", "TypeError", self, <<>>,
                         WriteFile(fs, opened.path, EmptyText), CONFIG_OBJECT_LIST)
            ELSE IF ~result.ok
            THEN Outcome("raised", result.exc, self, result.log,
                         Emit(WriteFile(fs, opened.path, EmptyText), result.log), result.field)
            ELSE WriteResult(self, Emit(fs, result.log), Join(dire.v.s, filename), result)
            : result \in {SerializedFields(self)}})
        : opened \in {OpenForWriting(fs, Join(dire.v.s, filename))}})
    : dire \in {validate_path(fs, directory)}})

(* ObjectList.serialize hands a record to the Logger for every entry.      *)
(* When the Logger cannot be constructed that call raises inside           *)
(* from_union, which swallows it and raises TypeError for the field.       *)
Config_serialize(self, fs, directory, filename) ==
    The({
    IF ~dire.ok
    THEN IF dire.exc = "FileNotFoundError" THEN MissingDirectory(self, fs, dire)
         ELSE Outcome("raised", dire.exc, self, <<>>, fs, "directory")
    ELSE The({
        IF result.log # <<>> /\ ~Logger_init(fs).ok
        THEN Outcome("raised", "TypeError", self, <<>>, fs, CONFIG_OBJECT_LIST)
        ELSE IF ~result.ok
        THEN Outcome("raised", result.exc, self, result.log, Emit(fs, result.log), result.field)
        ELSE WriteResult(self, Emit(fs, result.log), Join(dire.v.s, filename), result)
        : result \in {SerializedFields(self)}})
    : dire \in {validate_path(fs, directory)}})

(***************************************************************************)
(* Singleton (the decorator of Logger).  Objects are numbered in the order *)
(* in which the decorated constructor completes.                           *)
(***************************************************************************)
CallResult(ret, inst, n, e) == [ret |-> ret, instance |-> inst, created |-> n, exc |-> e]

(* Variant of instance() that does not look for the stored instance. *)
Singleton_instance_always_new(inst, n, ctor_ok) ==
    IF ctor_ok THEN CallResult(n + 1, n + 1, n + 1, "none")
    ELSE CallResult(0, inst, n, "OSError")

Singleton_instance(inst, n, ctor_ok) ==
    IF inst # 0 THEN CallResult(inst, inst, n, "none")
    ELSE IF ctor_ok THEN CallResult(n + 1, n + 1, n + 1, "none")
    ELSE CallResult(0, 0, n, "OSError")

Singleton_call(inst, n) == CallResult(0, inst, n, "TypeError")

(* Logger.instance().<level>(msg) for every record of lg: the Logger is    *)
(* constructed when the first record arrives.                              *)
LoggerAfter(inst, n, lg, fs) ==
    IF lg = <<>> THEN CallResult(inst, inst, n, "none")
    ELSE Singleton_instance(inst, n, Logger_init(fs).ok)

(***************************************************************************)
(* Inputs: the documents of the input file and the Config instances a      *)
(* caller can hold.                                                        *)
(***************************************************************************)
SeqsUpTo(E, n) == UNION {[1..m -> E] : m \in 0..n}
Override(base, key, val) == [q \in DOMAIN base \cup {key} |-> IF q = key THEN val ELSE base[q]]
Omit(base, key) == [q \in DOMAIN base \ {key} |-> base[q]]

sA == <<"a">>
sB == <<"b">>
BoolWords ==
    {<<"Y", "e", "s">>, <<"y", "e", "s">>, <<"T", "R", "U", "E">>, <<"t", "r", "u", "e">>,
     <<"y">>, <<"Y">>, <<"n", "o">>, <<"y", "e">>, <<>>}

OutFile == Join(Cwd, OutName)
OutFileD == Join(DirD, OutName)

JInt(n) == JNum(n, FALSE)
EmptyDoc == <<>>
JEntries ==
    {JObj(EmptyDoc),
     JObj([obj_id |-> JInt(1)]),
     JObj([obj_desc |-> JStr(sA)]),
     JObj([obj_id |-> JInt(2), obj_desc |-> JStr(sB)]),
     JObj([obj_id |-> JBool(TRUE)]),
     JObj([obj_id |-> JStr(sA)]),
     JObj([obj_desc |-> JInt(1)]),
     JInt(1)}

(* The JSON values tried for a key, with arrays of at most n elements. *)
InputValsUpTo(key, n) ==
    CASE key = CONFIG_SAMPLE_BOOL ->
           {JNull, JBool(TRUE), JBool(FALSE), JInt(1), JNum(1, TRUE), JArr(<<>>), JObj(EmptyDoc)}
             \cup {JStr(w) : w \in BoolWords}
      [] key = CONFIG_SAMPLE_PATH ->
           {JNull, JInt(1), JBool(TRUE)}
             \cup {JStr(q) : q \in {EmptyPath, DirD, RelD, LinkL, MissingPath, InFile}}
      [] key = CONFIG_SAMPLE_STRING -> {JNull, JStr(sA), JStr(<<>>), JInt(1), JBool(TRUE)}
      [] key = CONFIG_SAMPLE_INT ->
           {JNull, JInt(1), JInt(0), JNum(1, TRUE), JStr(<<"n", "o">>), JBool(TRUE), JBool(FALSE)}
      [] key = CONFIG_SIMPLE_LIST ->
           {JNull, JStr(sA), JObj(EmptyDoc)}
             \cup {JArr(l) : l \in SeqsUpTo({JStr(sA), JStr(sB), JInt(1), JNull}, n)}
      [] key = CONFIG_OBJECT_LIST ->
           {JNull, JStr(sA), JObj(EmptyDoc)} \cup {JArr(l) : l \in SeqsUpTo(JEntries, n)}
      [] OTHER -> {JInt(42)}

InputVals(key) == InputValsUpTo(key, MaxLen)

FullDoc ==
    [sample_bool |-> JBool(TRUE), sample_path |-> JStr(DirD), sample_string |-> JStr(sA),
     sample_int |-> JInt(7), simple_list |-> JArr(<<JStr(sA), JStr(sB)>>),
     object_list |-> JArr(<<JObj([obj_id |-> JInt(1), obj_desc |-> JStr(sA)])>>),
     unused |-> JInt(42)]

DocKeys == ConfigKeys \cup {"unused"}

(* Documents with one key set to each of its values; the full document    *)
(* with one key changed or left out; documents with a second, invalid key. *)
Docs ==
    {EmptyDoc, FullDoc}
      \cup UNION {{Override(EmptyDoc, key, val) : val \in InputVals(key)} : key \in DocKeys}
      \cup UNION {{Override(FullDoc, key, val) : val \in InputValsUpTo(key, 1)} : key \in DocKeys}
      \cup {Omit(FullDoc, key) : key \in DocKeys}
      \cup UNION {{Override(Override(EmptyDoc, key, val), other, JNum(1, TRUE)) :
                     val \in InputValsUpTo(key, 1), other \in ConfigKeys \ {key}} : key \in DocKeys}

InputContents ==
    {NotJson, EmptyText, JNull, JArr(<<>>), JStr(sA), JInt(1),
     Wrapped(JInt(1)), Wrapped(JObj(FullDoc)), Wrapped(JObj([sample_int |-> JBool(TRUE)]))}
      \cup {JObj(d) : d \in Docs}

OldDoc == JObj([sample_int |-> JInt(5)])

(* Config instances built by the caller with every field present and valid. *)
ValidLists == {ListV(l) : l \in SeqsUpTo({StrV(sA), StrV(sB)}, MaxLen)}
ValidEntries == {ObjectListV(IntV(1), StrV(sA)), ObjectListV(IntV(2), StrV(sB))}
ValidObjectLists == {ListV(l) : l \in SeqsUpTo(ValidEntries, MaxLen)}
FullConfigs ==
    {ConfigV(BoolV(b), StrV(q), StrV(sA), IntV(7), sl, ListV(<<ObjectListV(IntV(1), StrV(sA)),
                                                                ObjectListV(IntV(2), StrV(sB))>>)) :
        b \in BOOLEAN, q \in {DirD, RelD, LinkL, InFile}, sl \in ValidLists}
      \cup
    {ConfigV(BoolV(b), StrV(q), StrV(sA), IntV(7), ListV(<<StrV(sA), StrV(sB)>>), ol) :
        b \in BOOLEAN, q \in {DirD, RelD, LinkL, InFile}, ol \in ValidObjectLists}

(* Config instances with one field set by the caller to any Python value. *)
MemEntries ==
    ValidEntries \cup
    {ObjectListV(NoneV, NoneV), ObjectListV(StrV(sA), StrV(sA)), ObjectListV(BoolV(TRUE), NoneV),
     ObjectListV(IntV(1), IntV(1)), DictV([obj_id |-> IntV(1), obj_desc |-> StrV(sA)]), IntV(1)}

MemValsUpTo(key, n) ==
    CASE key = CONFIG_SAMPLE_BOOL -> {NoneV, BoolV(FALSE), StrV(<<"y">>), IntV(1), ListV(<<>>)}
      [] key = CONFIG_SAMPLE_PATH -> {NoneV, StrV(MissingPath), StrV(EmptyPath), IntV(1)}
      [] key = CONFIG_SAMPLE_STRING -> {NoneV, StrV(<<>>), IntV(1), BoolV(TRUE)}
      [] key = CONFIG_SAMPLE_INT -> {NoneV, IntV(0), BoolV(TRUE), FloatV(1), StrV(sA)}
      [] key = CONFIG_SIMPLE_LIST ->
           {NoneV, StrV(sA)} \cup {ListV(l) : l \in SeqsUpTo({StrV(sA), IntV(1), NoneV}, n)}
      [] key = CONFIG_OBJECT_LIST ->
           {NoneV, StrV(sA)} \cup {ListV(l) : l \in SeqsUpTo(MemEntries, n)}

MemVals(key) == MemValsUpTo(key, MaxLen)

AllNone == ConfigV(NoneV, NoneV, NoneV, NoneV, NoneV, NoneV)
FullConfig0 ==
    ConfigV(BoolV(TRUE), StrV(DirD), StrV(sA), IntV(7), ListV(<<StrV(sA)>>),
            ListV(<<ObjectListV(IntV(1), StrV(sA))>>))

MemConfigs ==
    FullConfigs \cup
    UNION {{[AllNone EXCEPT !.c[key] = val] : val \in MemVals(key)} : key \in ConfigKeys}
      \cup
    UNION {{[FullConfig0 EXCEPT !.c[key] = val] : val \in MemValsUpTo(key, 1)} : key \in ConfigKeys}

NoSaved == [self |-> NoConfig, directory |-> <<>>, name |-> <<>>]

(* The arguments of the caller: paths given plainly, relative to the       *)
(* working directory, through the link, with "." and with a final slash.   *)
LinkFile == Join(LinkL, OutName)
DotFile == <<".", "/", "c">>
InPaths == {EmptyPath, MissingPath, InFile, DotFile, DirD, OutFile, OutFileD, LinkFile}
ReloadPaths == {OutFile, OutFileD, LinkFile, MissingPath}
OutDirs == {EmptyPath, Cwd, <<".">>, RelD, DirD \o <<"/">>, LinkL, MissingPath, InFile}
OutNames == {OutName, <<>>, <<"x", "/", "o">>}
(* Every directory with the plain name, and every name in one directory. *)
OutArgs == {<<d, OutName>> : d \in OutDirs} \cup {<<RelD, n>> : n \in OutNames}

InitDirs == {Root, Cwd, DirD}
InitFiles(c) == [q \in {InFile, OutFile} |-> IF q = InFile THEN c ELSE OldDoc]

NoLast ==
    [op |-> "none", arg |-> <<>>, name |-> <<>>, status |-> "none", field |-> "none",
     self |-> NoConfig, before |-> NoFS, emitted |-> <<>>]

(***************************************************************************)
(* The state machine.                                                      *)
(***************************************************************************)
InitCommon ==
    /\ pc = "run"
    /\ exc = "none"
    /\ phase = "start"
    /\ dirs = InitDirs
    /\ log = <<>>
    /\ instance = 0
    /\ created = 0
    /\ calls = <<>>
    /\ last = NoLast
    /\ saved = NoSaved

(* The process starts with an input file and no Config. *)
InitLoad ==
    /\ InitCommon
    /\ cfg = NoConfig
    /\ \E c \in InputContents : files = InitFiles(c)

(* The caller holds a Config it built or changed itself. *)
InitMem ==
    /\ InitCommon
    /\ cfg \in MemConfigs
    /\ files = InitFiles(JObj(FullDoc))

Init == InitLoad \/ InitMem

(* The caller's variable is assigned only when the call returns. *)
Finish(o, op, arg, name, nextPhase) ==
    /\ pc' = IF o.status = "ok" THEN "run" ELSE o.status
    /\ exc' = o.exc
    /\ phase' = IF o.status = "ok" THEN nextPhase ELSE phase
    /\ cfg' = IF o.status = "ok" THEN o.cfg ELSE cfg
    /\ files' = o.fs.files
    /\ dirs' = o.fs.dirs
    /\ log' = log \o o.log
    /\ \E lgr \in {LoggerAfter(instance, created, o.log, FS(files, dirs))} :
          /\ instance' = lgr.instance
          /\ created' = lgr.created
    /\ last' = [op |-> op, arg |-> arg, name |-> name, status |-> o.status, field |-> o.field,
                self |-> cfg, before |-> FS(files, dirs), emitted |-> o.log]
    /\ saved' = IF op = "serialize" /\ o.status = "ok"
                THEN [self |-> cfg, directory |-> arg, name |-> name]
                ELSE saved
    /\ UNCHANGED calls

Deserialize(str_path) ==
    /\ pc = "run"
    /\ \/ phase = "start" /\ cfg.k = "NoConfig"
       \/ phase = "saved" /\ str_path \in ReloadPaths
    /\ \E o \in {Config_deserialize(FS(files, dirs), str_path)} :
          Finish(o, "deserialize", str_path, <<>>,
                 IF phase = "start" THEN "loaded" ELSE "reloaded")

Serialize(directory, filename) ==
    /\ pc = "run"
    /\ phase \in {"start", "loaded"}
    /\ cfg.k = "Config"
    /\ \E o \in {Config_serialize(cfg, FS(files, dirs), directory, filename)} :
          Finish(o, "serialize", directory, filename, "saved")

(* main.py line 10: the debug record after which the process ends. *)
Terminate ==
    /\ pc = "run"
    /\ phase = "saved"
    /\ \E rec \in {LogRec("debug", Msg("program terminated", NoneV, <<>>))},
          init \in {Logger_init(FS(files, dirs))} :
          IF instance = 0 /\ ~init.ok
          THEN /\ pc' = "raised"
               /\ exc' = init.exc
               /\ UNCHANGED <<files, dirs, log, instance, created>>
          ELSE /\ pc' = "done"
               /\ exc' = "none"
               /\ \E fs \in {Emit(FS(files, dirs), <<rec>>)} : files' = fs.files /\ dirs' = fs.dirs
               /\ log' = Append(log, rec)
               /\ \E lgr \in {LoggerAfter(instance, created, <<rec>>, FS(files, dirs))} :
                     /\ instance' = lgr.instance
                     /\ created' = lgr.created
    /\ UNCHANGED <<phase, cfg, calls, last, saved>>

Next ==
    \/ \E str_path \in InPaths : Deserialize(str_path)
    \/ \E args \in OutArgs : Serialize(args[1], args[2])
    \/ Terminate

Spec == Init /\ [][Next]_vars

(***************************************************************************)
(* The caller using the Singleton directly: Logger.instance() and Logger().*)
(* The constructor of Logger may be refused by the system when it makes    *)
(* the directory ("makedirs") or when it opens the file ("open").          *)
(***************************************************************************)
InstanceCall(refused) ==
    /\ pc = "run"
    /\ Len(calls) < MaxCalls
    /\ \E init \in {Logger_init(FS(files, dirs))} :
       \E r \in {Singleton_instance(instance, created, refused = "none" /\ init.ok)} :
          /\ instance' = r.instance
          /\ created' = r.created
          /\ files' = IF instance = 0 /\ refused = "none" THEN init.fs.files ELSE files
          /\ dirs' = IF instance = 0 /\ refused # "makedirs" THEN init.fs.dirs ELSE dirs
          /\ calls' = Append(calls, [op |-> "instance", ret |-> r.ret, exc |-> r.exc,
                                     held |-> instance])
    /\ UNCHANGED <<pc, exc, phase, cfg, log, last, saved>>

DirectCall ==
    /\ pc = "run"
    /\ Len(calls) < MaxCalls
    /\ \E r \in {Singleton_call(instance, created)} :
          /\ instance' = r.instance
          /\ created' = r.created
          /\ calls' = Append(calls, [op |-> "call", ret |-> r.ret, exc |-> r.exc,
                                     held |-> instance])
    /\ UNCHANGED <<pc, exc, phase, cfg, files, dirs, log, last, saved>>

InitSingleton ==
    /\ InitCommon
    /\ cfg = NoConfig
    /\ files = InitFiles(JObj(FullDoc))

NextSingleton ==
    \/ \E refused \in {"none", "makedirs", "open"} : InstanceCall(refused)
    \/ DirectCall

SpecSingleton == InitSingleton /\ [][NextSingleton]_vars

(***************************************************************************)
(* Vocabulary of the properties.                                           *)
(***************************************************************************)
Resolved(s) == AbsPath(RealPath(s))

Now == FS(files, dirs)

(* The file a serialize into `directory` under `filename` writes. *)
TargetOf(directory, filename) == RealPath(Join(Resolved(directory), filename))

(* The file written by the last successful serialize. *)
WrittenPath == TargetOf(saved.directory, saved.name)

(* The document the last deserialize was pointed at, as json.loads gets it. *)
LastDoc ==
    IF last.arg # <<>> /\ Resolved(last.arg) \in DOMAIN last.before.files
    THEN RemoveNewlines(last.before.files[Resolved(last.arg)])
    ELSE NotJson

RawField(key) ==
    IF LastDoc.j = "object" /\ key \in DOMAIN LastDoc.d THEN LastDoc.d[key] ELSE JNull

IsJInt(t) == t.j = "number" /\ ~t.num.frac

(* A Config whose six fields are all present and valid. *)
FullyValid(c) ==
    /\ c.k = "Config"
    /\ c.c.sample_bool.k = "bool"
    /\ c.c.sample_path.k = "str"
    /\ c.c.sample_path.s # <<>>
    /\ Exists(Now, Resolved(c.c.sample_path.s))
    /\ c.c.sample_string.k = "str"
    /\ c.c.sample_int.k = "int"
    /\ c.c.simple_list.k = "list"
    /\ \A i \in 1..Len(c.c.simple_list.l) : c.c.simple_list.l[i].k = "str"
    /\ c.c.object_list.k = "list"
    /\ \A i \in 1..Len(c.c.object_list.l) :
          /\ c.c.object_list.l[i].k = "ObjectList"
          /\ c.c.object_list.l[i].o.obj_id.k = "int"
          /\ c.c.object_list.l[i].o.obj_desc.k = "str"

ReadBack == saved.self.k = "Config" /\ last.op = "deserialize" /\ last.arg = WrittenPath

(* C1 as stated: serialize then deserialize of the written file returns a   *)
(* Config equal to the serialized one, for every fully valid Config.        *)
C1_RoundTripAnyPath ==
    (ReadBack /\ FullyValid(saved.self)) => (last.status = "ok" /\ cfg = saved.self)

(* C1 amended: the round trip is the identity for every fully valid Config  *)
(* whose sample_path is already in resolved absolute form; the path of any  *)
(* other Config comes back resolved.                                        *)
C1_RoundTripResolved ==
    (ReadBack /\ FullyValid(saved.self))
        => /\ last.status = "ok"
           /\ cfg = [saved.self EXCEPT !.c.sample_path = StrV(Resolved(saved.self.c.sample_path.s))]
           /\ (Resolved(saved.self.c.sample_path.s) = saved.self.c.sample_path.s => cfg = saved.self)

C1_Witness ==
    /\ ReadBack
    /\ FullyValid(saved.self)
    /\ Resolved(saved.self.c.sample_path.s) = saved.self.c.sample_path.s
    /\ Len(saved.self.c.simple_list.l) = 2
    /\ Len(saved.self.c.object_list.l) = 2
    /\ saved.self.c.object_list.l[1] # saved.self.c.object_list.l[2]
    /\ last.status = "ok"
    /\ cfg = saved.self

LastTarget == TargetOf(last.arg, last.name)

LastCritical == last.emitted[Len(last.emitted)]

(* C2: a successful serialize writes an object with exactly the six keys,   *)
(* null for every absent field; a document with a key set to null           *)
(* deserializes to the same Config, and serializes to the same output, as   *)
(* the document without that key.                                           *)
C2_SixKeysNullForAbsent ==
    /\ (last.op = "serialize" /\ last.status = "ok")
         => \A t \in {files[LastTarget]} :
              /\ t.j = "object"
              /\ DOMAIN t.d = ConfigKeys
              /\ \A key \in ConfigKeys : last.self.c[key].k = "NoneType" => t.d[key].j = "null"
    /\ last.op = "deserialize"
         => \A doc \in {LastDoc} :
              doc.j = "object"
                => \A key \in ConfigKeys \cap DOMAIN doc.d :
                      doc.d[key].j = "null"
                        => \A o \in {Config_deserialize(
                                         WriteFile(last.before, Resolved(last.arg),
                                                   JObj(Omit(doc.d, key))),
                                         last.arg)} :
                              /\ o.status = last.status
                              /\ o.log = last.emitted
                              /\ o.status = "ok"
                                   => /\ o.cfg = cfg
                                      /\ Config_serialize(o.cfg, Now, Cwd, OutName).fs
                                           = Config_serialize(cfg, Now, Cwd, OutName).fs

C2_Witness ==
    /\ last.op = "serialize"
    /\ last.status = "ok"
    /\ \A key \in ConfigKeys : last.self.c[key].k = "NoneType"
    /\ files[LastTarget] = JObj([key \in ConfigKeys |-> JNull])

(* C3 as stated: every failure of deserialize or serialize ends with a      *)
(* critical log record followed by the termination of the process; none     *)
(* leaves the call as an exception.                                         *)
C3_FailuresLoggedThenExit ==
    (last.status \in {"exit", "raised"} /\ exc \notin {"IsADirectoryError", "NotADirectoryError"})
        => /\ pc = "exit"
           /\ last.emitted # <<>>
           /\ LastCritical.level = "critical"

Expected(field) ==
    CASE field = CONFIG_SAMPLE_BOOL -> {"str", "bool", "None"}
      [] field = CONFIG_SAMPLE_PATH -> {"None", "str"}
      [] field = CONFIG_SAMPLE_STRING -> {"None", "str"}
      [] field = CONFIG_SAMPLE_INT -> {"None", "int"}
      [] field = CONFIG_SIMPLE_LIST -> {"list", "None"}
      [] field = CONFIG_OBJECT_LIST -> {"list", "None"}

Mentions(msg, word) == word = msg.text \/ \E i \in 1..Len(msg.shapes) : msg.shapes[i] = word

(* C4 as stated: the diagnostic of a field that matches no alternative      *)
(* names the field and every shape of its chain.                            *)
C4_DiagnosticNamesFieldAndShapes ==
    (/\ last.op = "deserialize"
     /\ last.status = "exit"
     /\ last.field \in ConfigKeys
     /\ LastCritical.msg.text = "should be one out of")
        => /\ Mentions(LastCritical.msg, last.field)
           /\ \A word \in Expected(last.field) : Mentions(LastCritical.msg, word)

IntOrNull(t) == t.j = "null" \/ IsJInt(t)

(* C5 as stated: a deserialize succeeds only if sample_int, and the obj_id  *)
(* of every entry, is a JSON integer or null/missing, and the stored values *)
(* are integers or absent, never booleans.                                  *)
C5_IntegerFieldsRejectBooleans ==
    (last.op = "deserialize" /\ last.status = "ok")
        => /\ IntOrNull(RawField(CONFIG_SAMPLE_INT))
           /\ cfg.c.sample_int.k \in {"int", "NoneType"}
           /\ cfg.c.object_list.k = "list"
                => \A i \in 1..Len(cfg.c.object_list.l) :
                      cfg.c.object_list.l[i].o.obj_id.k \in {"int", "NoneType"}

CasePairs ==
    {<<"t", "T">>, <<"r", "R">>, <<"u", "U">>, <<"e", "E">>, <<"y", "Y">>, <<"s", "S">>}
SameLetter(a, b) == a = b \/ <<a, b>> \in CasePairs \/ <<b, a>> \in CasePairs
EqualIgnoringCase(s, w) == Len(s) = Len(w) /\ \A i \in 1..Len(s) : SameLetter(s[i], w[i])
TrueWord(s) ==
    \E w \in {<<"t", "r", "u", "e">>, <<"y", "e", "s">>, <<"y">>} : EqualIgnoringCase(s, w)

(* C6: sample_bool is true for a string equal to "true", "yes" or "y"       *)
(* ignoring case, false for any other string, the boolean for a boolean,    *)
(* absent for null or a missing key, and any other kind ends the load with  *)
(* a type mismatch at sample_bool.                                          *)
C6_SampleBool ==
    (last.op = "deserialize" /\ LastDoc.j = "object")
        => LET raw == RawField(CONFIG_SAMPLE_BOOL) IN
           IF raw.j \in {"string", "boolean", "null"}
           THEN /\ last.field # CONFIG_SAMPLE_BOOL
                /\ last.status = "ok"
                     => /\ cfg.c.sample_bool.k \in {"bool", "NoneType"}
                        /\ raw.j = "string" => cfg.c.sample_bool = BoolV(TrueWord(raw.s))
                        /\ raw.j = "boolean" => cfg.c.sample_bool = BoolV(raw.b)
                        /\ raw.j = "null" => cfg.c.sample_bool = NoneV
           ELSE /\ last.status = "exit"
                /\ last.field = CONFIG_SAMPLE_BOOL
                /\ LastCritical.level = "critical"

C6_Witness ==
    /\ last.op = "deserialize"
    /\ last.status = "ok"
    /\ RawField(CONFIG_SAMPLE_BOOL) = JStr(<<"Y", "e", "s">>)
    /\ cfg.c.sample_bool = BoolV(TRUE)

(* C7 as stated: a string sample_path, the empty string included, either    *)
(* comes back as the resolved form of an existing path or ends the load     *)
(* with NotFound; a null or missing sample_path yields absent.              *)
C7_SamplePath ==
    (last.op = "deserialize" /\ LastDoc.j = "object")
        => LET raw == RawField(CONFIG_SAMPLE_PATH) IN
           /\ (raw.j = "string" /\ (last.status = "ok" \/ last.field = CONFIG_SAMPLE_PATH))
                => \/ /\ last.status = "ok"
                      /\ cfg.c.sample_path = StrV(Resolved(raw.s))
                      /\ Exists(Now, Resolved(raw.s))
                   \/ /\ last.status = "exit"
                      /\ LastCritical.level = "critical"
                      /\ LastCritical.msg.text = "does not exist."
           /\ (raw.j = "null" /\ last.status = "ok") => cfg.c.sample_path = NoneV

Absent(t, key) == key \notin DOMAIN t.d \/ t.d[key].j = "null"
ValidEntry(t) ==
    /\ t.j = "object"
    /\ Absent(t, CONFIG_OBJECT_OBJ_ID) \/ IsJInt(t.d[CONFIG_OBJECT_OBJ_ID])
    /\ Absent(t, CONFIG_OBJECT_OBJ_DESC) \/ t.d[CONFIG_OBJECT_OBJ_DESC].j = "string"
EntryOf(t) ==
    ObjectListV(IF Absent(t, CONFIG_OBJECT_OBJ_ID) THEN NoneV
                ELSE IntV(t.d[CONFIG_OBJECT_OBJ_ID].num.n),
                IF Absent(t, CONFIG_OBJECT_OBJ_DESC) THEN NoneV
                ELSE StrV(t.d[CONFIG_OBJECT_OBJ_DESC].s))

(* C8 as stated: an array of simple_list or object_list comes back          *)
(* element by element, and one invalid element (for object_list: not an     *)
(* object, or obj_id not an integer, or obj_desc not a string) ends the     *)
(* load with a type mismatch at that field.                                 *)
C8_ListsElementwise ==
    (last.op = "deserialize" /\ LastDoc.j = "object")
        => LET sl == RawField(CONFIG_SIMPLE_LIST)
               ol == RawField(CONFIG_OBJECT_LIST)
           IN
           /\ (sl.j = "array" /\ (last.status = "ok" \/ last.field = CONFIG_SIMPLE_LIST))
                => IF \A i \in 1..Len(sl.l) : sl.l[i].j = "string"
                   THEN /\ last.status = "ok"
                        /\ cfg.c.simple_list = ListV([i \in 1..Len(sl.l) |-> StrV(sl.l[i].s)])
                   ELSE last.status = "exit" /\ last.field = CONFIG_SIMPLE_LIST
           /\ (ol.j = "array" /\ (last.status = "ok" \/ last.field = CONFIG_OBJECT_LIST))
                => IF \A i \in 1..Len(ol.l) : ValidEntry(ol.l[i])
                   THEN /\ last.status = "ok"
                        /\ cfg.c.object_list = ListV([i \in 1..Len(ol.l) |-> EntryOf(ol.l[i])])
                   ELSE last.status = "exit" /\ last.field = CONFIG_OBJECT_LIST

HeldAfter(i) == IF i < Len(calls) THEN calls[i + 1].held ELSE instance

(* C9: the decorated constructor completes at most once; every successful   *)
(* instance() after the first returns the object the first one built; a     *)
(* direct call raises TypeError and leaves the stored instance alone.       *)
C9_SingletonProtocol ==
    /\ created <= 1
    /\ \A i \in 1..Len(calls) :
          /\ calls[i].op = "call" => (calls[i].exc = "TypeError" /\ HeldAfter(i) = calls[i].held)
          /\ (calls[i].op = "instance" /\ calls[i].exc = "none")
               => /\ calls[i].ret # 0
                  /\ HeldAfter(i) = calls[i].ret
                  /\ calls[i].held # 0 => calls[i].ret = calls[i].held
          /\ (calls[i].op = "instance" /\ calls[i].exc # "none")
               => (calls[i].held = 0 /\ HeldAfter(i) = 0)
    /\ \A i, n \in 1..Len(calls) :
          (/\ calls[i].op = "instance" /\ calls[i].exc = "none"
           /\ calls[n].op = "instance" /\ calls[n].exc = "none")
             => calls[i].ret = calls[n].ret

C9_Witness ==
    /\ Len(calls) >= 4
    /\ calls[1].op = "instance" /\ calls[1].exc # "none"
    /\ calls[2].op = "instance" /\ calls[2].exc = "none" /\ calls[2].held = 0
    /\ calls[3].op = "call" /\ calls[3].exc = "TypeError"
    /\ calls[4].op = "instance" /\ calls[4].ret = calls[2].ret
    /\ created = 1

NoneOr(x, kinds) == x.k = "NoneType" \/ x.k \in kinds
ChainsPass(c) ==
    /\ NoneOr(c.c.sample_bool, {"bool"})
    /\ NoneOr(c.c.sample_path, {"str"})
    /\ NoneOr(c.c.sample_string, {"str"})
    /\ NoneOr(c.c.sample_int, {"int", "bool"})
    /\ c.c.simple_list.k = "NoneType"
         \/ (c.c.simple_list.k = "list"
               /\ \A i \in 1..Len(c.c.simple_list.l) : c.c.simple_list.l[i].k = "str")
    /\ c.c.object_list.k = "NoneType"
         \/ (c.c.object_list.k = "list"
               /\ \A i \in 1..Len(c.c.object_list.l) :
                     /\ c.c.object_list.l[i].k = "ObjectList"
                     /\ NoneOr(c.c.object_list.l[i].o.obj_id, {"int", "bool"})
                     /\ NoneOr(c.c.object_list.l[i].o.obj_desc, {"str"}))

(* The files other than the file of the Logger. *)
Documents(fls) == [q \in DOMAIN fls \ {LogFile} |-> fls[q]]

(* C10: a serialize that fails leaves the target, and every other file but  *)
(* the log file, as it was; one that succeeds had an existing directory and *)
(* six fields that each match an alternative of their chain, and changes    *)
(* the target file only.                                                    *)
C10_ValidateBeforeWrite ==
    last.op = "serialize"
        => /\ last.status # "ok" => Documents(files) = Documents(last.before.files)
           /\ last.status = "ok"
                => /\ last.arg # <<>>
                   /\ Exists(last.before, Resolved(last.arg))
                   /\ ChainsPass(last.self)
                   /\ files[LastTarget] = json_dumps(SerializedFields(last.self).v)
                   /\ \A q \in DOMAIN Documents(last.before.files) \ {LastTarget} :
                         q \in DOMAIN files /\ files[q] = last.before.files[q]
           /\ (last.arg \in {EmptyPath, MissingPath} \/ ~ChainsPass(last.self))
                => last.status # "ok"

C10_Witness ==
    /\ last.op = "serialize"
    /\ last.status = "raised"
    /\ last.field = CONFIG_OBJECT_LIST
    /\ LastTarget \in DOMAIN last.before.files
    /\ files[LastTarget] = last.before.files[LastTarget]
    /\ last.emitted # <<>>
    /\ last.self.c.object_list.k = "list"
    /\ \E i \in 1..Len(last.self.c.object_list.l) : last.self.c.object_list.l[i].k # "ObjectList"

====
